---- MODULE Spec2Model ----
(***************************************************************************)
(* pdf_splitr: every page of a PDF is split into a left and a right half.  *)
(*                                                                         *)
(* The model follows src/pdf_splitr.py: the command line entry (main, the  *)
(* module-level process_pdf) and the library entry (PDFProcessor), the     *)
(* page loop of PDFProcessor.process_pdf with its two halves, and the      *)
(* final write.  Page objects live in a heap (objs) so that copying and    *)
(* sharing of page dictionaries is visible.                                *)
(*                                                                         *)
(* Numbers: a coordinate v is stored as the integer 2*v, so that the       *)
(* code's width/2 (an exact floating point halving) is exact here too.     *)
(* Source coordinates are whole units, that is, even integers.             *)
(***************************************************************************)
EXTENDS Integers, Sequences, FiniteSets, TLC

\* Longest input document (pages) of the multi-page inputs.
MaxPages == 2

\* Longest annotation list of a page of the single-page inputs.
MaxAnnots == 3

VARIABLES
    entry,        \* "cli": main(); "api": PDFProcessor(Path, Path).process_pdf()
    input,        \* the input file: [state, pages]
    outDir,       \* TRUE iff the output path's parent directory exists
    outWritable,  \* TRUE iff open(output_path, "wb") can succeed
    outFile,      \* the output path: "untouched", "truncated", "partial", "complete"
    pc,           \* position of the run
    exc,          \* exception that left PDFProcessor uncaught ("" when none)
    exitCode,     \* exit code of the command line run, -1 while it has not exited
    quiet,        \* the quiet argument of PDFProcessor.process_pdf
    console,      \* messages printed so far
    objs,         \* heap of page dictionaries; reader.pages are objs[1..total_pages]
    total_pages,  \* len(reader.pages)
    page_num,     \* loop variable of the page loop
    dims,         \* <<width, height, x_offset, y_offset>> of the current page
    writer        \* pages of the output writer, as heap indices

vars == <<entry, input, outDir, outWritable, outFile, pc, exc, exitCode, quiet,
          console, objs, total_pages, page_num, dims, writer>>

----------------------------------------------------------------------------
(* Page dictionaries and annotations *)

\* A page dictionary: the keys it holds and their values (<<>> for a key it
\* does not hold).  content names the page's content stream.
MkPage(content, box, hasAnnots, annots) ==
    [content  |-> content,
     keys     |-> box.keys \cup (IF hasAnnots THEN {"/Annots"} ELSE {}),
     MediaBox |-> box.MediaBox,
     CropBox  |-> box.CropBox,
     Annots   |-> annots]

\* The boxes of the input pages: MediaBox only; CropBox inside MediaBox (odd
\* width, so the midline is fractional); no box at all; corners given right to
\* left (negative width); zero width; zero height.
BoxChoices ==
    { [keys |-> {"/MediaBox"}, MediaBox |-> <<0, 0, 12, 8>>, CropBox |-> <<>>],
      [keys |-> {"/MediaBox", "/CropBox"},
       MediaBox |-> <<0, 0, 12, 8>>, CropBox |-> <<2, 2, 8, 6>>],
      [keys |-> {}, MediaBox |-> <<>>, CropBox |-> <<>>],
      [keys |-> {"/MediaBox"}, MediaBox |-> <<12, 0, 0, 8>>, CropBox |-> <<>>],
      [keys |-> {"/MediaBox"}, MediaBox |-> <<4, 0, 4, 8>>, CropBox |-> <<>>],
      [keys |-> {"/MediaBox"}, MediaBox |-> <<0, 8, 12, 8>>, CropBox |-> <<>>] }

\* Boxes of the pages of the multi-page inputs.
DocBoxChoices ==
    { b \in BoxChoices : b.MediaBox \in {<<>>, <<0, 0, 12, 8>>} }

\* An annotation entry of an /Annots array: held directly or through an
\* indirect reference; resolving to a dictionary or to the null object (a
\* dangling reference); with or without /Rect.  A /Rect of two numbers is an
\* unreadable one (rect[2] does not exist).
Annot(indirect, kind, hasRect, rect) ==
    [n |-> 0, indirect |-> indirect, kind |-> kind, hasRect |-> hasRect, Rect |-> rect]

AnnotLeft     == Annot(FALSE, "dict", TRUE, <<2, 0, 4, 2>>)
AnnotStraddle == Annot(TRUE, "dict", TRUE, <<4, 0, 8, 2>>)
AnnotRight    == Annot(FALSE, "dict", TRUE, <<8, 0, 10, 2>>)
AnnotTouch    == Annot(TRUE, "dict", TRUE, <<0, 0, 6, 2>>)
AnnotNoRect   == Annot(TRUE, "dict", FALSE, <<>>)
AnnotDangling == Annot(TRUE, "null", FALSE, <<>>)
AnnotBadRect  == Annot(FALSE, "dict", TRUE, <<2, 0>>)

AnnotShapes ==
    {AnnotLeft, AnnotStraddle, AnnotRight, AnnotTouch, AnnotNoRect,
     AnnotDangling, AnnotBadRect}

\* Annotation lists of the pages of the multi-page inputs.
DocAnnotLists ==
    {<<>>, <<AnnotStraddle>>, <<AnnotDangling>>, <<AnnotDangling, AnnotStraddle>>}

\* n is the annotation's place in its page's list: its identity.
Numbered(shapes) == [i \in 1..Len(shapes) |-> [shapes[i] EXCEPT !.n = i]]

AnnotLists == UNION {[1..k -> AnnotShapes] : k \in 0..MaxAnnots}

PageChoices ==
    {MkPage(0, b, FALSE, <<>>) : b \in BoxChoices}
    \cup {MkPage(0, b, TRUE, Numbered(l)) : b \in BoxChoices, l \in AnnotLists}

DocPageChoices ==
    {MkPage(0, b, FALSE, <<>>) : b \in DocBoxChoices}
    \cup {MkPage(0, b, TRUE, Numbered(l)) : b \in DocBoxChoices, l \in DocAnnotLists}

\* Page i of a document holds content stream i.
WithContent(ps) == [i \in 1..Len(ps) |-> [ps[i] EXCEPT !.content = i]]

\* The input documents: every document of up to MaxPages pages over the
\* multi-page page choices, and every one-page document over all page choices.
Documents ==
    {WithContent(d) : d \in UNION {[1..k -> DocPageChoices] : k \in 0..MaxPages}}
    \cup {WithContent(<<p>>) : p \in PageChoices}

----------------------------------------------------------------------------
(* Geometry *)

\* width/2: exact, on the doubled representation of even widths.
Half(w) == w \div 2

HasBox(page) == "/CropBox" \in page.keys \/ "/MediaBox" \in page.keys

\* Faulty variant: the MediaBox is preferred over the CropBox.
GetPageDimensionsMediaFirst(page) ==
    LET box == IF "/MediaBox" \in page.keys THEN page.MediaBox ELSE page.CropBox
    IN  <<box[3] - box[1], box[4] - box[2], box[1], box[2]>>

\* <<width, height, x_offset, y_offset>>; the caller checks HasBox, without
\* which page.mediabox raises.
GetPageDimensions(page) ==
    LET box == IF "/CropBox" \in page.keys THEN page.CropBox ELSE page.MediaBox
    IN  <<box[3] - box[1], box[4] - box[2], box[1], box[2]>>

\* mediabox.lower_left = (x, y); mediabox.upper_right = (x, y)
LeftBox(d)  == <<d[3], d[4], d[3] + Half(d[1]), d[4] + d[2]>>
RightBox(d) == <<d[3] + Half(d[1]), d[4], d[3] + d[1], d[4] + d[2]>>

\* Horizontal bounds tested by the two overlap tests.
LeftBounds(d)  == <<d[3], d[3] + Half(d[1])>>
RightBounds(d) == <<d[3] + Half(d[1]), d[3] + d[1]>>

----------------------------------------------------------------------------
(* Annotations of one half *)

\* annot.get_object(): the value behind an indirect reference, the value
\* itself otherwise.
GetObject(annot) == [annot EXCEPT !.indirect = FALSE]

\* Faulty variant: the overlap test with non-strict inequalities.
AnnotOutcomeInclusive(annot, b) ==
    LET obj == [annot EXCEPT !.indirect = FALSE]
    IN  IF obj.kind # "dict" THEN "raise"
        ELSE IF ~obj.hasRect THEN "skip"
        ELSE IF Len(obj.Rect) < 3 THEN "raise"
        ELSE IF obj.Rect[3] >= b[1] /\ obj.Rect[1] <= b[2] THEN "keep"
        ELSE "skip"

\* The body of the try block for one annotation and the horizontal bounds
\* <<xMin, xMax>> of a half: "keep" (appended to new_annots), "skip" (no /Rect,
\* or no overlap) or "raise" (an exception, caught by the except clause).
AnnotOutcome(annot, b) ==
    LET obj == GetObject(annot)
    IN  IF obj.kind # "dict" THEN "raise"
        ELSE IF ~obj.hasRect THEN "skip"
        ELSE IF Len(obj.Rect) < 3 THEN "raise"
        ELSE IF obj.Rect[3] > b[1] /\ obj.Rect[1] < b[2] THEN "keep"
        ELSE "skip"

\* Faulty variant: the try block around the whole loop, so that the first entry that
\* raises ends the loop.
RECURSIVE FilterAnnotsStopAtRaise(_, _, _, _)
FilterAnnotsStopAtRaise(annots, i, b, acc) ==
    IF i > Len(annots) THEN acc
    ELSE LET o == AnnotOutcome(annots[i], b)
         IN  IF o = "raise"
             THEN [acc EXCEPT !.raised = Append(@, annots[i].n)]
             ELSE FilterAnnotsStopAtRaise(annots, i + 1, b,
                    [acc EXCEPT !.kept = IF o = "keep"
                                         THEN Append(@, GetObject(annots[i]))
                                         ELSE @])

\* The for loop over annots, from entry i on: new_annots, and the entries
\* whose processing raised, in order.
RECURSIVE FilterAnnots(_, _, _, _)
FilterAnnots(annots, i, b, acc) ==
    IF i > Len(annots) THEN acc
    ELSE LET o == AnnotOutcome(annots[i], b)
         IN  FilterAnnots(annots, i + 1, b,
                [kept   |-> IF o = "keep"
                            THEN Append(acc.kept, GetObject(annots[i]))
                            ELSE acc.kept,
                 raised |-> IF o = "raise"
                            THEN Append(acc.raised, annots[i].n)
                            ELSE acc.raised])

\* del page['/Annots']
DelAnnots(page) ==
    [page EXCEPT !.keys = @ \ {"/Annots"}, !.Annots = <<>>]

\* page[NameObject('/Annots')] = ArrayObject(new_annots)
SetAnnots(page, new_annots) ==
    [page EXCEPT !.keys = @ \cup {"/Annots"}, !.Annots = new_annots]

\* The annotation block of a half: the page dictionary after it, and the
\* entries that raised.
HandleAnnots(page, b) ==
    IF "/Annots" \notin page.keys \/ page.Annots = <<>>
    THEN [page |-> page, raised |-> <<>>]
    ELSE LET f == FilterAnnots(page.Annots, 1, b, [kept |-> <<>>, raised |-> <<>>])
         IN  [page   |-> IF f.kept # <<>> THEN SetAnnots(page, f.kept)
                         ELSE DelAnnots(page),
              raised |-> f.raised]

\* The warnings printed for the entries that raised (none when quiet).
Warnings(raised, q, num) ==
    IF q THEN <<>>
    ELSE [i \in 1..Len(raised) |-> [kind |-> "warning", page |-> num, n |-> raised[i]]]

----------------------------------------------------------------------------
(* Writers *)

\* Faulty variant: the writer holds the page dictionary it was given, not a copy.
AddPageShared(heap, id) ==
    [heap |-> heap, id |-> id]

\* writer.add_page(page): the writer holds a copy of the page dictionary; the
\* content stream is shared.  Gives the new heap and the copy's index.
AddPage(heap, id) ==
    [heap |-> Append(heap, heap[id]), id |-> Len(heap) + 1]

\* Faulty variant: the page is put before the pages the writer holds.
WriterPrepend(w, id) == <<id>> \o w

\* writer.add_page puts the page after the pages the writer holds.
WriterAppend(w, id) == Append(w, id)

\* pages[0].mediabox.lower_left = ...; pages[0].mediabox.upper_right = ...
SetMediaBox(page, box) ==
    [page EXCEPT !.keys = @ \cup {"/MediaBox"}, !.MediaBox = box]

\* One half of the source page src: a one-page writer takes the page, its
\* MediaBox is set, its annotations are filtered, and the output writer takes
\* the result.  Gives the new heap, the index of the page the output writer
\* holds, and the entries that raised.
BuildHalf(heap, src, box, b) ==
    LET tmp  == AddPage(heap, src)
        h1   == [tmp.heap EXCEPT ![tmp.id] = SetMediaBox(@, box)]
        r    == HandleAnnots(h1[tmp.id], b)
        h2   == [h1 EXCEPT ![tmp.id] = r.page]
        out  == AddPage(h2, tmp.id)
    IN  [heap |-> out.heap, id |-> out.id, raised |-> r.raised]

----------------------------------------------------------------------------
(* The run *)

\* The type of the path arguments PDFProcessor gets: main passes the strings
\* of the command line, a library caller the Path objects of the signature.
PathType == IF entry = "cli" THEN "str" ELSE "Path"

\* Faulty variant: the loop ends one page early.
NextPcShort(num, total) == IF num + 1 < total THEN "left" ELSE "open"

\* enumerate(reader.pages, 1): after page num, the next page or the end of
\* the loop.
NextPc(num, total) == IF num < total THEN "left" ELSE "open"

ErrorMsg   == [kind |-> "error", page |-> 0, n |-> 0]
SuccessMsg == [kind |-> "success", page |-> 0, n |-> 0]

\* An exception e leaves PDFProcessor: the module-level process_pdf catches
\* it, prints the error and exits 1; a library caller sees it.
Fail(e) ==
    IF entry = "cli"
    THEN /\ console' = Append(console, ErrorMsg)
         /\ exitCode' = 1
         /\ pc' = "exit"
         /\ exc' = exc
    ELSE /\ console' = console
         /\ exitCode' = exitCode
         /\ pc' = "raised"
         /\ exc' = e

Init ==
    /\ entry \in {"cli", "api"}
    /\ input \in {[state |-> "missing", pages |-> <<>>],
                  [state |-> "corrupt", pages |-> <<>>]}
                 \cup {[state |-> "valid", pages |-> d] : d \in Documents}
    /\ outDir \in BOOLEAN
    /\ outWritable \in BOOLEAN
    /\ outFile = "untouched"
    /\ pc = IF entry = "cli" THEN "main" ELSE "construct"
    /\ exc = ""
    /\ exitCode = -1
    /\ quiet \in (IF entry = "cli" THEN {FALSE} ELSE BOOLEAN)
    /\ console = <<>>
    /\ objs = <<>>
    /\ total_pages = 0
    /\ page_num = 0
    /\ dims = <<>>
    /\ writer = <<>>

\* main: the input path must exist; the output directory is created.
Main ==
    /\ pc = "main"
    /\ IF input.state = "missing"
       THEN /\ console' = Append(console, ErrorMsg)
            /\ exitCode' = 1
            /\ pc' = "exit"
            /\ outDir' = outDir
       ELSE /\ outDir' = TRUE
            /\ pc' = "construct"
            /\ UNCHANGED <<console, exitCode>>
    /\ UNCHANGED <<entry, input, outWritable, outFile, exc, quiet, objs,
                   total_pages, page_num, dims, writer>>

\* PDFProcessor.__init__: output_path.parent exists on a Path only.
Construct ==
    /\ pc = "construct"
    /\ IF PathType = "str"
       THEN Fail("AttributeError") /\ outDir' = outDir
       ELSE /\ outDir' = TRUE
            /\ pc' = "load"
            /\ UNCHANGED <<console, exitCode, exc>>
    /\ UNCHANGED <<entry, input, outWritable, outFile, quiet, objs,
                   total_pages, page_num, dims, writer>>

\* reader = PdfReader(input_path); writer = PdfWriter(); total_pages
Load ==
    /\ pc = "load"
    /\ IF input.state = "missing"
       THEN Fail("FileNotFoundError") /\ UNCHANGED <<objs, total_pages, page_num>>
       ELSE IF input.state = "corrupt"
       THEN Fail("PdfReadError") /\ UNCHANGED <<objs, total_pages, page_num>>
       ELSE /\ objs' = input.pages
            /\ total_pages' = Len(input.pages)
            /\ page_num' = 1
            /\ pc' = NextPc(0, Len(input.pages))
            /\ UNCHANGED <<console, exitCode, exc>>
    /\ UNCHANGED <<entry, input, outDir, outWritable, outFile, quiet, dims, writer>>

\* The first half of the loop body: the page's dimensions and its left half.
SplitLeft ==
    /\ pc = "left"
    /\ IF ~HasBox(objs[page_num])
       THEN Fail("TypeError") /\ UNCHANGED <<objs, dims, writer>>
       ELSE LET d == GetPageDimensions(objs[page_num])
                h == BuildHalf(objs, page_num, LeftBox(d), LeftBounds(d))
            IN  /\ dims' = d
                /\ objs' = h.heap
                /\ writer' = WriterAppend(writer, h.id)
                /\ console' = console \o Warnings(h.raised, quiet, page_num)
                /\ pc' = "right"
                /\ UNCHANGED <<exitCode, exc>>
    /\ UNCHANGED <<entry, input, outDir, outWritable, outFile, quiet,
                   total_pages, page_num>>

\* The second half of the loop body: the right half, and the loop's step.
SplitRight ==
    /\ pc = "right"
    /\ LET h == BuildHalf(objs, page_num, RightBox(dims), RightBounds(dims))
       IN  /\ objs' = h.heap
           /\ writer' = WriterAppend(writer, h.id)
           /\ console' = console \o Warnings(h.raised, quiet, page_num)
    /\ page_num' = page_num + 1
    /\ pc' = NextPc(page_num, total_pages)
    /\ UNCHANGED <<entry, input, outDir, outWritable, outFile, exc, exitCode,
                   quiet, total_pages, dims>>

\* open(self.output_path, "wb")
OpenOutput ==
    /\ pc = "open"
    /\ IF outDir /\ outWritable
       THEN /\ outFile' = "truncated"
            /\ pc' = "write"
            /\ UNCHANGED <<console, exitCode, exc>>
       ELSE Fail("OSError") /\ outFile' = outFile
    /\ UNCHANGED <<entry, input, outDir, outWritable, quiet, objs, total_pages,
                   page_num, dims, writer>>

\* writer.write(output_file), which the device may cut short; then the return
\* to the caller, which on the command line prints the success message.
WriteOutput ==
    /\ pc = "write"
    /\ \E full \in BOOLEAN :
         IF full
         THEN Fail("OSError") /\ outFile' = "partial"
         ELSE /\ outFile' = "complete"
              /\ exc' = exc
              /\ IF entry = "cli"
                 THEN /\ console' = Append(console, SuccessMsg)
                      /\ exitCode' = 0
                      /\ pc' = "exit"
                 ELSE /\ pc' = "returned"
                      /\ UNCHANGED <<console, exitCode>>
    /\ UNCHANGED <<entry, input, outDir, outWritable, quiet, objs, total_pages,
                   page_num, dims, writer>>

Next ==
    \/ Main
    \/ Construct
    \/ Load
    \/ SplitLeft
    \/ SplitRight
    \/ OpenOutput
    \/ WriteOutput

Spec == Init /\ [][Next]_vars

----------------------------------------------------------------------------
(* Vocabulary of the properties.  Source pages are read from the input file *)
(* (input.pages); coordinates are compared doubled, without halving.        *)

SourcePages == input.pages
NumSource   == Len(input.pages)
NumOut      == Len(writer)
OutPage(j)  == objs[writer[j]]
SourceIdx(j) == (j + 1) \div 2
SourceOf(j) == input.pages[SourceIdx(j)]
IsLeftSlot(j) == j % 2 = 1

\* The box of the visible area: the CropBox when the page has one.
VisibleBox(p) == IF "/CropBox" \in p.keys THEN p.CropBox ELSE p.MediaBox
Splittable(p) == p.keys \cap {"/CropBox", "/MediaBox"} # {}

\* The page loop has ended.
LoopDone == pc \in {"open", "write", "returned"} \/ exitCode = 0

\* Both halves of source page i are in the output writer.
BothHalves(i) == 2 * i <= NumOut

\* Twice the horizontal bounds <<xMin, xMax>> of output slot j.
Bounds2(j) ==
    LET v == VisibleBox(SourceOf(j))
    IN  IF IsLeftSlot(j) THEN <<2 * v[1], v[1] + v[3]>> ELSE <<v[1] + v[3], 2 * v[3]>>

\* The annotation list of a source page (empty when it has none).
SourceAnnots(p) == IF "/Annots" \in p.keys THEN p.Annots ELSE <<>>

\* The annotation resolves to a dictionary whose Rect can be read.
Readable(a) == a.kind = "dict" /\ a.hasRect /\ Len(a.Rect) >= 3
\* Processing the annotation raises an exception.
Raises(a) == a.kind # "dict" \/ (a.hasRect /\ Len(a.Rect) < 3)
\* The annotation resolves to a dictionary without Rect.
LacksRect(a) == a.kind = "dict" /\ ~a.hasRect

Overlaps2(a, b2) == Readable(a) /\ 2 * a.Rect[3] > b2[1] /\ 2 * a.Rect[1] < b2[2]

\* The places, in the source list, of the annotations output slot j keeps.
KeptPlaces(j) == {OutPage(j).Annots[k].n : k \in 1..Len(OutPage(j).Annots)}

----------------------------------------------------------------------------
(* C1: when the page loop of PDFProcessor.process_pdf has ended (so on      *)
(* every run that completes), the output writer holds exactly 2*N pages     *)
(* for an N-page input, and for every i output page 2i-1 is the left half   *)
(* of source page i and output page 2i its right half: both show source     *)
(* page i's content, the first starts at the visible area's left edge and   *)
(* the second ends at its right edge.                                       *)
C1_TwoPagesPerSourceInOrder ==
    LoopDone =>
      /\ NumOut = 2 * NumSource
      /\ \A i \in 1..NumSource :
           LET v == VisibleBox(SourcePages[i])
               l == OutPage(2 * i - 1)
               r == OutPage(2 * i)
           IN  /\ l.content = SourcePages[i].content
               /\ r.content = SourcePages[i].content
               /\ l.MediaBox[1] = v[1] /\ 2 * l.MediaBox[3] = v[1] + v[3]
               /\ 2 * r.MediaBox[1] = v[1] + v[3] /\ r.MediaBox[3] = v[3]

\* A library run that returned with the halves of a two-page input whose
\* pages have positive width.
C1_Witness ==
    /\ pc = "returned"
    /\ NumSource = 2
    /\ NumOut = 4
    /\ \A i \in 1..2 : VisibleBox(SourcePages[i])[3] > VisibleBox(SourcePages[i])[1]

(* C2: for every output page, with the visible area taken from the source  *)
(* page's CropBox when it has one and from its MediaBox otherwise, the box  *)
(* of a left half is (x_offset, y_offset)-(x_offset+width/2,                *)
(* y_offset+height) and the box of a right half is (x_offset+width/2,       *)
(* y_offset)-(x_offset+width, y_offset+height); the two halves of a page    *)
(* are each half as wide and exactly as high as the visible area, and the   *)
(* left half's right edge is the right half's left edge.                    *)
C2_HalfBoxes ==
    /\ \A j \in 1..NumOut :
         LET v == VisibleBox(SourceOf(j))
             b == OutPage(j).MediaBox
         IN  /\ "/MediaBox" \in OutPage(j).keys
             /\ b[2] = v[2] /\ b[4] = v[4]
             /\ IF IsLeftSlot(j)
                THEN b[1] = v[1] /\ 2 * b[3] = v[1] + v[3]
                ELSE 2 * b[1] = v[1] + v[3] /\ b[3] = v[3]
    /\ \A i \in 1..NumSource :
         BothHalves(i) =>
           LET v == VisibleBox(SourcePages[i])
               l == OutPage(2 * i - 1).MediaBox
               r == OutPage(2 * i).MediaBox
           IN  /\ 2 * (l[3] - l[1]) = v[3] - v[1]
               /\ 2 * (r[3] - r[1]) = v[3] - v[1]
               /\ l[4] - l[2] = v[4] - v[2]
               /\ r[4] - r[2] = v[4] - v[2]
               /\ l[3] = r[1]

\* Both halves of a page with a CropBox inside its MediaBox, split at a
\* fractional midline.
C2_Witness ==
    \E i \in 1..NumSource :
      /\ BothHalves(i)
      /\ "/CropBox" \in SourcePages[i].keys
      /\ SourcePages[i].CropBox # SourcePages[i].MediaBox
      /\ OutPage(2 * i - 1).MediaBox = <<2, 2, 5, 6>>
      /\ OutPage(2 * i).MediaBox = <<5, 2, 8, 6>>

(* C3: on every output page, a half with horizontal bounds [xMin, xMax),   *)
(* the annotations kept are exactly the source annotations that resolve to  *)
(* a dictionary with a readable Rect with rect.x_right > xMin and           *)
(* rect.x_left < xMax, in the order of the source list, each with the Rect  *)
(* it has in the source.                                                    *)
C3_KeptAnnotations ==
    \A j \in 1..NumOut :
      LET src == SourceAnnots(SourceOf(j))
          a   == OutPage(j).Annots
      IN  /\ KeptPlaces(j) = {n \in 1..Len(src) : Overlaps2(src[n], Bounds2(j))}
          /\ \A k \in 1..Len(a) - 1 : a[k].n < a[k + 1].n
          /\ \A k \in 1..Len(a) :
               a[k].n \in 1..Len(src) /\ a[k].Rect = src[a[k].n].Rect

\* A half that keeps the first and the third of three annotations and drops
\* the second, which has a readable Rect outside the half.
C3_Witness ==
    \E j \in 1..NumOut :
      LET src == SourceAnnots(SourceOf(j))
          a   == OutPage(j).Annots
      IN  /\ Len(src) = 3
          /\ Len(a) = 2
          /\ a[1].n = 1 /\ a[2].n = 3
          /\ Readable(src[2])

(* C4: for every page whose two halves are in the output and every source  *)
(* annotation with a readable Rect, with midpoint = x_offset + width/2: if  *)
(* rect.x_right <= midpoint the annotation is not on the right half; if     *)
(* rect.x_left >= midpoint it is not on the left half; if x_left < midpoint *)
(* < x_right it is on both halves, with the Rect it has in the source.      *)
C4_OverlapMonotonic ==
    \A i \in 1..NumSource :
      BothHalves(i) =>
        LET v    == VisibleBox(SourcePages[i])
            src  == SourceAnnots(SourcePages[i])
            mid2 == v[1] + v[3]
            onL(n) == \E k \in 1..Len(OutPage(2 * i - 1).Annots) :
                        /\ OutPage(2 * i - 1).Annots[k].n = n
                        /\ OutPage(2 * i - 1).Annots[k].Rect = src[n].Rect
            onR(n) == \E k \in 1..Len(OutPage(2 * i).Annots) :
                        /\ OutPage(2 * i).Annots[k].n = n
                        /\ OutPage(2 * i).Annots[k].Rect = src[n].Rect
        IN  \A n \in 1..Len(src) :
              Readable(src[n]) =>
                /\ 2 * src[n].Rect[3] <= mid2 => ~onR(n)
                /\ 2 * src[n].Rect[1] >= mid2 => ~onL(n)
                /\ (2 * src[n].Rect[1] < mid2 /\ mid2 < 2 * src[n].Rect[3])
                     => onL(n) /\ onR(n)

(* C5: every page of the output writer that keeps no annotation has no      *)
(* /Annots key at all, never an empty list, whatever the source page's      *)
(* /Annots was (absent, empty, or a list from which the half keeps nothing).*)
C5_NoEmptyAnnots ==
    \A j \in 1..NumOut :
      OutPage(j).Annots = <<>> => "/Annots" \notin OutPage(j).keys

(* C6: if a source page has neither CropBox nor MediaBox, or its chosen box *)
(* has non-positive width or height, the run aborts with an error: it       *)
(* neither returns nor exits 0, no output file is created, and no half page *)
(* of non-positive width or height is ever in the output writer.            *)
C6_MalformedPageAborts ==
    /\ \A j \in 1..NumOut :
         /\ OutPage(j).MediaBox[3] > OutPage(j).MediaBox[1]
         /\ OutPage(j).MediaBox[4] > OutPage(j).MediaBox[2]
    /\ (\E i \in 1..NumSource :
          \/ ~Splittable(SourcePages[i])
          \/ VisibleBox(SourcePages[i])[3] <= VisibleBox(SourcePages[i])[1]
          \/ VisibleBox(SourcePages[i])[4] <= VisibleBox(SourcePages[i])[2])
       => /\ outFile = "untouched"
          /\ pc # "returned"
          /\ exitCode # 0

\* The warnings printed for annotation n of source page i.
WarningsFor(i, n) ==
    {k \in 1..Len(console) :
       console[k].kind = "warning" /\ console[k].page = i /\ console[k].n = n}

C8_OutputOnlyAfterAllPages ==
    /\ outFile # "untouched" =>
         /\ input.state = "valid"
         /\ NumOut = 2 * NumSource
         /\ pc \notin {"main", "construct", "load", "left", "right", "open"}
    /\ (pc \in {"raised", "exit"} /\ (input.state # "valid" \/ NumOut < 2 * NumSource))
         => outFile = "untouched"
    /\ exc \in {"AttributeError", "FileNotFoundError", "PdfReadError", "TypeError"}
         => outFile = "untouched"

\* A run that split page 1 and failed on page 2, which has no box.
C8_Witness ==
    /\ pc = "raised"
    /\ exc = "TypeError"
    /\ NumSource = 2
    /\ NumOut = 2
    /\ outFile = "untouched"

(* C9: a command line run on an existing, valid input whose pages all have  *)
(* a box, with a writable output path that the write completes on or never  *)
(* reaches, exits with code 0 and leaves the complete output file; every    *)
(* exit has code 0 or 1, and code 1 comes with an error message.            *)
C9_CliExitCode ==
    (entry = "cli" /\ pc = "exit") =>
      /\ exitCode \in {0, 1}
      /\ exitCode = 1 => console # <<>> /\ console[Len(console)].kind = "error"
      /\ (/\ input.state = "valid"
          /\ \A i \in 1..NumSource : Splittable(SourcePages[i])
          /\ outWritable
          /\ outFile # "partial")
           => exitCode = 0 /\ outFile = "complete"

\* The heap indices of the source pages and of the output writer's pages.
SourceIds == 1..total_pages
OutputIds == {writer[j] : j \in 1..NumOut}

(* C10: no step changes a source page (boxes, annotation list) or a page    *)
(* the output writer already holds, and the page a step adds to the output  *)
(* writer is a dictionary of its own, neither a source page nor a page      *)
(* added before: the left half's box and annotation list are set without    *)
(* effect on the source page or the right half, and building the right half *)
(* leaves the left half as appended.                                        *)
C10_HalvesIndependent ==
    [][ /\ \A id \in SourceIds \cup OutputIds : objs'[id] = objs[id]
        /\ \A j \in 1..Len(writer') :
             j > NumOut => writer'[j] \notin SourceIds \cup OutputIds
        /\ \A id \in 1..total_pages' : objs'[id] = input.pages[id] ]_vars

\* After the right half of a page whose only annotation lies in the right
\* half: the left half, appended before, has lost its /Annots, the right half
\* keeps the annotation, the source page still has it and its own MediaBox.
C10_Witness ==
    /\ NumOut = 2
    /\ page_num = 2
    /\ "/Annots" \notin OutPage(1).keys
    /\ Len(OutPage(2).Annots) = 1
    /\ Len(objs[1].Annots) = 1
    /\ objs[1].MediaBox # OutPage(1).MediaBox
    /\ OutPage(1).MediaBox # OutPage(2).MediaBox

====
